---- MODULE Spec2Model ----
(***************************************************************************)
(* A model of dropbox_downloader.py: the DropboxContentHasher class, the   *)
(* listing phase (fetch_entries) and the download phase (download_entries).*)
(*                                                                         *)
(* Two specifications share the module:                                    *)
(*   HasherSpec  a client calling update / digest / hexdigest / copy on    *)
(*               DropboxContentHasher instances in any order;              *)
(*   Spec        one run of main: fetch_entries, then download_entries,    *)
(*               against a remote service whose calls may succeed or fail. *)
(***************************************************************************)
EXTENDS Integers, Sequences, FiniteSets, TLC

(***************************************************************************)
(* Bounds.  BLOCK_SIZE is the class constant of line 37 (4 MiB) scaled     *)
(* down so that data of a few bytes spans several blocks.                  *)
(***************************************************************************)
BLOCK_SIZE == 2
\* total number of bytes fed to one hasher instance by the client
MaxFeed == 4
\* number of client calls on hasher instances in one behaviour
MaxCalls == 4

\* the byte values the data is made of
Bytes == {0, 1}
\* hasher instances: 1 is built by the constructor, 2 by copy()
Insts == {1, 2}
\* references to hashlib.sha256 objects; 0 is Python's None
None == 0
Refs == 1 .. 5

RECURSIVE SeqsUpTo(_, _)
SeqsUpTo(S, n) ==
    IF n = 0 THEN {<<>>}
    ELSE LET shorter == SeqsUpTo(S, n - 1)
         IN  shorter \cup {Append(s, x) : s \in {t \in shorter : Len(t) = n - 1}, x \in S}

Min(a, b) == IF a < b THEN a ELSE b

(***************************************************************************)
(* hashlib.sha256.  An object's state is the byte string fed to it so far; *)
(* digest() is a function of that string, digest_size bytes long.  The     *)
(* function is a small rolling hash standing for SHA-256 (2 bytes of       *)
(* output in place of 32).                                                 *)
(***************************************************************************)
RECURSIVE Sha256Fold(_, _)
Sha256Fold(h, input) ==
    IF input = <<>> THEN h
    ELSE Sha256Fold((h * 31 + Head(input) + 1) % 65536, Tail(input))

Sha256Digest(input) ==
    LET h == Sha256Fold(7, input) IN <<h \div 256, h % 256>>

HexDigits == <<"0", "1", "2", "3", "4", "5", "6", "7",
               "8", "9", "a", "b", "c", "d", "e", "f">>

RECURSIVE Hex(_)
Hex(bytes) ==
    IF bytes = <<>> THEN <<>>
    ELSE <<HexDigits[(Head(bytes) \div 16) + 1], HexDigits[(Head(bytes) % 16) + 1]>>
         \o Hex(Tail(bytes))

(***************************************************************************)
(* The object world of the hasher: a heap of sha256 objects and the        *)
(* DropboxContentHasher instances, whose fields hold references.           *)
(*   heap[r] = [live, input]      hs[i] = [made, overall, block, pos]      *)
(***************************************************************************)
FreeCell == [live |-> FALSE, input |-> <<>>]
NewCell == [live |-> TRUE, input |-> <<>>]
NoObject == [made |-> FALSE, overall |-> None, block |-> None, pos |-> 0]

ReferencedBy(hset) ==
    {hset[i].overall : i \in DOMAIN hset} \cup {hset[i].block : i \in DOMAIN hset}

\* hashlib.sha256(): a new object at a free address
Alloc(w) ==
    CHOOSE r \in Refs : /\ ~ w.heap[r].live
                        /\ \A q \in Refs : (q < r) => w.heap[q].live

\* reference counting: an object no field refers to is freed
Collect(w) ==
    [w EXCEPT !.heap = [r \in Refs |->
        IF r \in ReferencedBy(w.hs) THEN w.heap[r] ELSE FreeCell]]

ShaUpdate(w, r, data) ==
    [w EXCEPT !.heap[r].input = @ \o data]

ShaCopy(w, r, c) ==
    [w EXCEPT !.heap[c] = [live |-> TRUE, input |-> w.heap[r].input]]

\* results of a call: the exception raised ("" for none) and the value returned
NoExc == ""
InvalidState == "AssertionError: already called digest()"
TypeError == "AssertionError: expecting a byte string"
AttributeError == "AttributeError"
NoValue == [kind |-> "none", bytes |-> <<>>, hex |-> <<>>]
BytesValue(b) == [kind |-> "bytes", bytes |-> b, hex |-> <<>>]
HexValue(x) == [kind |-> "hex", bytes |-> <<>>, hex |-> x]
Returned(w, v) == [w |-> w, exc |-> NoExc, ret |-> v, input |-> <<>>]
Raised(w, e) == [w |-> w, exc |-> e, ret |-> NoValue, input |-> <<>>]

\* __init__ (lines 39-42)
HasherInit(w, i) ==
    LET o  == Alloc(w)
        w1 == [w EXCEPT !.heap[o] = NewCell, !.hs[i].made = TRUE, !.hs[i].overall = o]
        b  == Alloc(w1)
    IN  [w1 EXCEPT !.heap[b] = NewCell, !.hs[i].block = b, !.hs[i].pos = 0]

EmptyWorld ==
    [heap |-> [r \in Refs |-> FreeCell], hs |-> [i \in Insts |-> NoObject]]

\* a variant of lines 59-62 that keeps the block hasher (line 61 left out)
FoldBlockKept(w, i) ==
    LET w1 == ShaUpdate(w, w.hs[i].overall, Sha256Digest(w.heap[w.hs[i].block].input))
    IN  [w1 EXCEPT !.hs[i].pos = 0]

\* lines 59-62: a full block is folded into the overall hasher
FoldBlock(w, i) ==
    LET w1 == ShaUpdate(w, w.hs[i].overall, Sha256Digest(w.heap[w.hs[i].block].input))
        b  == Alloc(w1)
    IN  Collect([w1 EXCEPT !.heap[b] = NewCell, !.hs[i].block = b, !.hs[i].pos = 0])

\* a variant of the loop that takes BLOCK_SIZE bytes whatever the block holds
RECURSIVE UpdateLoopNoSplit(_, _, _, _)
UpdateLoopNoSplit(w, i, new_data, p) ==
    IF p < Len(new_data)
    THEN LET w1 == IF w.hs[i].pos = BLOCK_SIZE THEN FoldBlock(w, i) ELSE w
             part == SubSeq(new_data, p + 1, Min(p + BLOCK_SIZE, Len(new_data)))
             w2 == ShaUpdate(w1, w1.hs[i].block, part)
             w3 == [w2 EXCEPT !.hs[i].pos = @ + Len(part)]
         IN  UpdateLoopNoSplit(w3, i, new_data, p + Len(part))
    ELSE w

\* lines 57-69: the loop of update, new_data_pos = p
RECURSIVE UpdateLoop(_, _, _, _)
UpdateLoop(w, i, new_data, p) ==
    IF p < Len(new_data)
    THEN LET w1 == IF w.hs[i].pos = BLOCK_SIZE THEN FoldBlock(w, i) ELSE w
             space_in_block == BLOCK_SIZE - w1.hs[i].pos
             part == SubSeq(new_data, p + 1, Min(p + space_in_block, Len(new_data)))
             w2 == ShaUpdate(w1, w1.hs[i].block, part)
             w3 == [w2 EXCEPT !.hs[i].pos = @ + Len(part)]
         IN  UpdateLoop(w3, i, new_data, p + Len(part))
    ELSE w

\* update (lines 47-69); new_data = [binary, bytes]
update(w, i, new_data) ==
    IF w.hs[i].overall = None THEN Raised(w, InvalidState)
    ELSE IF ~ new_data.binary THEN Raised(w, TypeError)
    ELSE Returned(UpdateLoop(w, i, new_data.bytes, 0), NoValue)

\* a variant of lines 77-79 that folds the current block even when it is empty
FinishBlockAlways(w, i) ==
    LET w1 == ShaUpdate(w, w.hs[i].overall, Sha256Digest(w.heap[w.hs[i].block].input))
    IN  [w1 EXCEPT !.hs[i].block = None]

\* lines 77-79 of _finish: the last, partial or full, block is folded
FinishBlock(w, i) ==
    IF w.hs[i].pos > 0
    THEN LET w1 == ShaUpdate(w, w.hs[i].overall, Sha256Digest(w.heap[w.hs[i].block].input))
         IN  [w1 EXCEPT !.hs[i].block = None]
    ELSE w

\* a variant of line 81 that keeps the overall hasher
ConsumeForgotten(w, i) == w

\* line 81 of _finish: the instance gives up its overall hasher
Consume(w, i) == [w EXCEPT !.hs[i].overall = None]

\* _finish (lines 71-82): returns the overall sha256 object, here its input
finish(w, i) ==
    IF w.hs[i].overall = None THEN Raised(w, InvalidState)
    ELSE LET w1 == FinishBlock(w, i)
             h  == w1.hs[i].overall
         IN  [w |-> Collect(Consume(w1, i)), exc |-> NoExc, ret |-> NoValue,
              input |-> w1.heap[h].input]

\* digest (lines 84-85)
digest(w, i) ==
    LET f == finish(w, i)
    IN  IF f.exc # NoExc THEN f
        ELSE [f EXCEPT !.ret = BytesValue(Sha256Digest(f.input))]

\* hexdigest (lines 87-88)
hexdigest(w, i) ==
    LET f == finish(w, i)
    IN  IF f.exc # NoExc THEN f
        ELSE [f EXCEPT !.ret = HexValue(Hex(Sha256Digest(f.input)))]

\* a variant of copy that shares the block hasher instead of copying it
copyShared(w, i, c) ==
    IF w.hs[i].overall = None \/ w.hs[i].block = None THEN Raised(w, AttributeError)
    ELSE LET o  == Alloc(w)
             w1 == ShaCopy(w, w.hs[i].overall, o)
         IN  Returned([w1 EXCEPT !.hs[c] = [made |-> TRUE, overall |-> o,
                                            block |-> w.hs[i].block,
                                            pos |-> w.hs[i].pos]], NoValue)

\* copy (lines 90-95): instance c is the new object
copy(w, i, c) ==
    IF w.hs[i].overall = None \/ w.hs[i].block = None THEN Raised(w, AttributeError)
    ELSE LET o  == Alloc(w)
             w1 == ShaCopy(w, w.hs[i].overall, o)
             b  == Alloc(w1)
             w2 == ShaCopy(w1, w.hs[i].block, b)
         IN  Returned([w2 EXCEPT !.hs[c] = [made |-> TRUE, overall |-> o, block |-> b,
                                            pos |-> w.hs[i].pos]], NoValue)

(***************************************************************************)
(* State of the hasher client (HasherSpec).                                *)
(*   heap, hashers   the object world                                      *)
(*   fed[i]          the bytes instance i has taken in, by update calls on *)
(*                   it and, for a copy, on its original before the copy   *)
(*   nupdates[i]     the update calls that fed[i] arrived in               *)
(*   finalizeCalls[i] the digest/hexdigest calls made on instance i        *)
(*   last            the last call: operation, instance, exception, value, *)
(*                   the input of the overall sha256 object it finalized,  *)
(*                   and finalizeCalls[inst] as it was before the call     *)
(*   ncalls          calls made so far                                     *)
(***************************************************************************)
VARIABLES heap, hashers, fed, nupdates, finalizeCalls, last, ncalls

hvars == <<heap, hashers, fed, nupdates, finalizeCalls, last, ncalls>>

(***************************************************************************)
(* State of one run of main (Spec).                                        *)
(*  the service and the arguments                                          *)
(*   pages        the listing: pages[k] = [entries, has_more, cursor]      *)
(*   retry        args.retry                                               *)
(*   disk         the files of save_dir, by name                           *)
(*  fetch_entries                                                          *)
(*   pc           where the run is: "list_folder", "entries" (inside the   *)
(*                while loop, at entry entry_i of res), "fetch", "verify", *)
(*                "handler" (download_entries), "done", "aborted"          *)
(*   res, entry_i, entries_to_download, total_size, total_num              *)
(*   plan         the value fetch_entries returned, if it returned         *)
(*  download_entries                                                       *)
(*   idx, retry_i the loop variables; error: the exception caught          *)
(*   exc          the exception that ended the run ("" for none)           *)
(*  history                                                                *)
(*   requests     the listing calls made, in order                         *)
(*   fetches[n]   fetch requests issued for name n                         *)
(*   passedAt[n]  fetches[n] when n's file first passed verification, or 0 *)
(*   fetchedBad[n] the last fetch for n completed and left a file whose    *)
(*                content hash is not the entry's                          *)
(*   nrefresh     calls of check_and_refresh_access_token                  *)
(*   reported     names whose failure was reported ("Skipping...")         *)
(*   output       the summary lines the run has printed                    *)
(*   prev         what the run before this one left: whether there was     *)
(*                one, whether it had a plan and ended with every entry    *)
(*                of it verified, and the names whose local file it left   *)
(*                missing or not matching                                  *)
(***************************************************************************)
VARIABLES pages, retry, disk, pc, res, entry_i, entries_to_download, total_size,
          total_num, plan, idx, retry_i, error, exc,
          requests, fetches, passedAt, fetchedBad, nrefresh, reported, output, prev

evars == <<pages, retry, disk, pc, res, entry_i, entries_to_download, total_size,
           total_num, plan, idx, retry_i, error, exc,
           requests, fetches, passedAt, fetchedBad, nrefresh, reported, output, prev>>

vars == <<hvars, evars>>

World == [heap |-> heap, hs |-> hashers]

NoCall == [op |-> "none", inst |-> 0, exc |-> NoExc, ret |-> NoValue,
           input |-> <<>>, prior |-> 0]

\* what a client may pass to update: byte strings, and one value that is not bytes
Binary(b) == [binary |-> TRUE, bytes |-> b]
NonBinary == [binary |-> FALSE, bytes |-> <<>>]
Inputs == {Binary(b) : b \in SeqsUpTo(Bytes, MaxFeed)} \cup {NonBinary}

HasherIdle ==
    /\ heap = EmptyWorld.heap
    /\ hashers = EmptyWorld.hs
    /\ fed = [i \in Insts |-> <<>>]
    /\ nupdates = [i \in Insts |-> 0]
    /\ finalizeCalls = [i \in Insts |-> 0]
    /\ last = NoCall
    /\ ncalls = 0

\* h = DropboxContentHasher()
HasherStart ==
    /\ heap = HasherInit(EmptyWorld, 1).heap
    /\ hashers = HasherInit(EmptyWorld, 1).hs
    /\ fed = [i \in Insts |-> <<>>]
    /\ nupdates = [i \in Insts |-> 0]
    /\ finalizeCalls = [i \in Insts |-> 0]
    /\ last = NoCall
    /\ ncalls = 0

Record(op, i, r) ==
    /\ heap' = r.w.heap
    /\ hashers' = r.w.hs
    /\ last' = [op |-> op, inst |-> i, exc |-> r.exc, ret |-> r.ret,
                input |-> r.input, prior |-> finalizeCalls[i]]
    /\ ncalls' = ncalls + 1

CallUpdate(i, new_data) ==
    /\ ncalls < MaxCalls
    /\ hashers[i].made
    /\ Len(fed[i]) + Len(new_data.bytes) <= MaxFeed
    /\ LET r == update(World, i, new_data)
       IN  /\ Record("update", i, r)
           /\ fed' = IF r.exc = NoExc THEN [fed EXCEPT ![i] = @ \o new_data.bytes] ELSE fed
           /\ nupdates' = IF r.exc = NoExc THEN [nupdates EXCEPT ![i] = @ + 1] ELSE nupdates
    /\ UNCHANGED finalizeCalls
    /\ UNCHANGED evars

CallDigest(i) ==
    /\ ncalls < MaxCalls
    /\ hashers[i].made
    /\ Record("digest", i, digest(World, i))
    /\ finalizeCalls' = [finalizeCalls EXCEPT ![i] = @ + 1]
    /\ UNCHANGED <<fed, nupdates>>
    /\ UNCHANGED evars

CallHexdigest(i) ==
    /\ ncalls < MaxCalls
    /\ hashers[i].made
    /\ Record("hexdigest", i, hexdigest(World, i))
    /\ finalizeCalls' = [finalizeCalls EXCEPT ![i] = @ + 1]
    /\ UNCHANGED <<fed, nupdates>>
    /\ UNCHANGED evars

CallCopy(i, c) ==
    /\ ncalls < MaxCalls
    /\ hashers[i].made
    /\ ~ hashers[c].made
    /\ LET r == copy(World, i, c)
       IN  /\ Record("copy", i, r)
           /\ fed' = IF r.exc = NoExc THEN [fed EXCEPT ![c] = fed[i]] ELSE fed
           /\ nupdates' = IF r.exc = NoExc THEN [nupdates EXCEPT ![c] = nupdates[i]]
                          ELSE nupdates
    /\ UNCHANGED finalizeCalls
    /\ UNCHANGED evars

HasherNext ==
    \/ \E i \in Insts, d \in Inputs : CallUpdate(i, d)
    \/ \E i \in Insts : CallDigest(i)
    \/ \E i \in Insts : CallHexdigest(i)
    \/ \E i \in Insts, c \in Insts : CallCopy(i, c)

(***************************************************************************)
(* The Sync Engine.                                                        *)
(***************************************************************************)
\* bounds of the run: entries in the listing, pages, and the --retry argument
MaxEntries == 2
MaxPages == 3
MaxRetry == 2

\* names of the remote directory, in listing order, and the files behind them
NameSeq == <<"a", "b", "c", "d">>
Names == {NameSeq[k] : k \in 1 .. Len(NameSeq)}
RemoteContent(name) ==
    CASE name = "a" -> <<0, 1, 1>>
      [] name = "b" -> <<1>>
      [] name = "c" -> <<1, 0, 0, 1>>
      [] OTHER      -> <<0, 0>>

\* a file of the same size with another last byte, and a shorter file
Corrupted(content) ==
    [content EXCEPT ![Len(content)] = 1 - content[Len(content)]]
Truncated(content) == SubSeq(content, 1, Len(content) - 1)

NoFile == [exists |-> FALSE, content |-> <<>>]
File(content) == [exists |-> TRUE, content |-> content]

\* the content_hash the service reports for a file: the same algorithm (the
\* class's docstring), block by block
BlockList(D) ==
    [k \in 1 .. ((Len(D) + BLOCK_SIZE - 1) \div BLOCK_SIZE) |->
        SubSeq(D, (k - 1) * BLOCK_SIZE + 1, Min(k * BLOCK_SIZE, Len(D)))]

RECURSIVE Concat(_)
Concat(ss) == IF ss = <<>> THEN <<>> ELSE Head(ss) \o Concat(Tail(ss))

ServiceContentHash(D) ==
    Hex(Sha256Digest(Concat([k \in DOMAIN BlockList(D) |-> Sha256Digest(BlockList(D)[k])])))

FileMetadata(name) ==
    [kind |-> "file", name |-> name, size |-> Len(RemoteContent(name)),
     content_hash |-> ServiceContentHash(RemoteContent(name))]
FolderMetadata(name) ==
    [kind |-> "folder", name |-> name, size |-> 0, content_hash |-> <<>>]
OtherMetadata(name) ==
    [kind |-> "other", name |-> name, size |-> 0, content_hash |-> <<>>]
Metadata(kind, name) ==
    CASE kind = "file"   -> FileMetadata(name)
      [] kind = "folder" -> FolderMetadata(name)
      [] OTHER           -> OtherMetadata(name)

\* lines 123-127 of check_file_hash: the file is read BLOCK_SIZE bytes at a time
RECURSIVE ReadLoop(_, _, _)
ReadLoop(w, content, off) ==
    LET chunk == SubSeq(content, off + 1, Min(off + BLOCK_SIZE, Len(content)))
    IN  IF Len(chunk) = 0 THEN w
        ELSE ReadLoop(update(w, 1, [binary |-> TRUE, bytes |-> chunk]).w,
                      content, off + Len(chunk))

\* check_file_hash (lines 120-128) on a file holding `content`
check_file_hash(content, expected_hash) ==
    hexdigest(ReadLoop(HasherInit(EmptyWorld, 1), content, 0), 1).ret.hex = expected_hash

\* a variant of lines 142-143 that trusts the size alone
AlreadyDownloadedBySize(file, entry) ==
    /\ file.exists
    /\ Len(file.content) = entry.size

\* lines 142-143: the entry's file is on disk with the entry's size and hash
AlreadyDownloaded(file, entry) ==
    /\ file.exists
    /\ Len(file.content) = entry.size
    /\ check_file_hash(file.content, entry.content_hash)

NoPage == [entries |-> <<>>, has_more |-> FALSE, cursor |-> 0]
NoPlan == [returned |-> FALSE, entries |-> <<>>]

\* the listings: up to MaxEntries entries with distinct names, of any kind, cut
\* into 1 .. MaxPages pages (a page may be empty); every page but the last has
\* has_more set, and page k's cursor leads to page k + 1
EntrySeqs ==
    UNION {{[k \in 1 .. n |-> Metadata(kinds[k], NameSeq[k])] :
               kinds \in [1 .. n -> {"file", "folder", "other"}]} : n \in 0 .. MaxEntries}

Cuts(n, np) ==
    {c \in [0 .. np -> 0 .. n] :
        /\ c[0] = 0 /\ c[np] = n
        /\ \A k \in 1 .. np : c[k - 1] <= c[k]}

Paginate(es, c, np) ==
    [k \in 1 .. np |-> [entries  |-> SubSeq(es, c[k - 1] + 1, c[k]),
                        has_more |-> k < np,
                        cursor   |-> k]]

Listings ==
    UNION {UNION {{Paginate(es, c, np) : c \in Cuts(Len(es), np)} : np \in 1 .. MaxPages}
           : es \in EntrySeqs}

AllEntries(ps) == Concat([k \in DOMAIN ps |-> ps[k].entries])

\* the disks: for each listed file nothing, the remote file, a file of the same
\* size and other content, or a shorter file
LocalFiles(name) ==
    <<NoFile, File(RemoteContent(name)), File(Corrupted(RemoteContent(name))),
      File(Truncated(RemoteContent(name)))>>

ListedFiles(ps) ==
    {AllEntries(ps)[k].name : k \in {j \in DOMAIN AllEntries(ps) : AllEntries(ps)[j].kind = "file"}}

Disks(ps) ==
    {[n \in Names |-> IF n \in ListedFiles(ps) THEN LocalFiles(n)[pick[n]] ELSE NoFile] :
        pick \in [ListedFiles(ps) -> 1 .. 4]}

\* no run came before this one
NoRun == [ran |-> FALSE, verified |-> FALSE, stale |-> {}]

EngineIdle ==
    /\ pages = <<>>
    /\ retry = 0
    /\ disk = [n \in Names |-> NoFile]
    /\ pc = "idle"
    /\ res = NoPage
    /\ entry_i = 0
    /\ entries_to_download = <<>>
    /\ total_size = 0
    /\ total_num = 0
    /\ plan = NoPlan
    /\ idx = 0
    /\ retry_i = 0
    /\ error = NoExc
    /\ exc = NoExc
    /\ requests = <<>>
    /\ fetches = [n \in Names |-> 0]
    /\ passedAt = [n \in Names |-> 0]
    /\ fetchedBad = [n \in Names |-> FALSE]
    /\ nrefresh = 0
    /\ reported = {}
    /\ output = <<>>
    /\ prev = NoRun

\* main up to the call of fetch_entries (lines 203-209, 133-134)
Init ==
    /\ HasherIdle
    /\ pages \in Listings
    /\ retry \in 0 .. MaxRetry
    /\ disk \in Disks(pages)
    /\ pc = "list_folder"
    /\ res = NoPage
    /\ entry_i = 0
    /\ entries_to_download = <<>>
    /\ total_size = 0
    /\ total_num = 0
    /\ plan = NoPlan
    /\ idx = 0
    /\ retry_i = 0
    /\ error = NoExc
    /\ exc = NoExc
    /\ requests = <<>>
    /\ fetches = [n \in Names |-> 0]
    /\ passedAt = [n \in Names |-> 0]
    /\ fetchedBad = [n \in Names |-> FALSE]
    /\ nrefresh = 0
    /\ reported = {}
    /\ output = <<>>
    /\ prev = NoRun

downloadVars == <<idx, retry_i, error, fetches, passedAt, fetchedBad, nrefresh, reported>>
listingVars == <<res, entry_i, entries_to_download, total_size, total_num, requests>>

\* an exception nothing catches ends the run
Abort(e) ==
    /\ pc' = "aborted"
    /\ exc' = e

\* a variant of line 138 that counts the entries of the last page only
TakePageRecounted(p) ==
    /\ res' = p
    /\ total_num' = Len(p.entries)
    /\ entry_i' = 1
    /\ pc' = "entries"
    /\ UNCHANGED exc

\* a listing call returned page p: line 137-138, then the for loop starts
TakePage(p) ==
    /\ res' = p
    /\ total_num' = total_num + Len(p.entries)
    /\ entry_i' = 1
    /\ pc' = "entries"
    /\ UNCHANGED exc

\* line 135: dbx.files_list_folder(path="", shared_link=link)
ListFolder ==
    /\ pc = "list_folder"
    /\ requests' = Append(requests, [call |-> "list_folder", cursor |-> 0])
    /\ \/ TakePage(pages[1])
       \/ Abort("TransportError") /\ UNCHANGED <<res, total_num, entry_i>>
    /\ UNCHANGED <<pages, retry, output, prev, disk, entries_to_download, total_size,
                   plan>>
    /\ UNCHANGED downloadVars
    /\ UNCHANGED hvars

AtEntry == pc = "entries" /\ entry_i <= Len(res.entries)

\* lines 140-145: a file that is already on disk is skipped
EntrySkip ==
    /\ AtEntry
    /\ res.entries[entry_i].kind = "file"
    /\ AlreadyDownloaded(disk[res.entries[entry_i].name], res.entries[entry_i])
    /\ entry_i' = entry_i + 1
    /\ UNCHANGED <<pages, retry, output, prev, disk, pc, res, entries_to_download,
                   total_size,
                   total_num, plan, exc, requests>>
    /\ UNCHANGED downloadVars
    /\ UNCHANGED hvars

\* a variant of lines 140-147 that removes the stale file it has found
EntryIncludeRemoving ==
    /\ AtEntry
    /\ res.entries[entry_i].kind = "file"
    /\ ~ AlreadyDownloaded(disk[res.entries[entry_i].name], res.entries[entry_i])
    /\ disk' = [disk EXCEPT ![res.entries[entry_i].name] = NoFile]
    /\ total_size' = total_size + res.entries[entry_i].size
    /\ entries_to_download' = Append(entries_to_download, res.entries[entry_i])
    /\ entry_i' = entry_i + 1
    /\ UNCHANGED <<pages, retry, output, prev, pc, res, total_num, plan, exc, requests>>
    /\ UNCHANGED downloadVars
    /\ UNCHANGED hvars

\* lines 140-147: any other file is put on the list
EntryInclude ==
    /\ AtEntry
    /\ res.entries[entry_i].kind = "file"
    /\ ~ AlreadyDownloaded(disk[res.entries[entry_i].name], res.entries[entry_i])
    /\ total_size' = total_size + res.entries[entry_i].size
    /\ entries_to_download' = Append(entries_to_download, res.entries[entry_i])
    /\ entry_i' = entry_i + 1
    /\ UNCHANGED <<pages, retry, output, prev, disk, pc, res, total_num, plan, exc,
                   requests>>
    /\ UNCHANGED downloadVars
    /\ UNCHANGED hvars

\* a variant of lines 148-150 that passes over a folder
EntryFolderSkipped ==
    /\ AtEntry
    /\ res.entries[entry_i].kind = "folder"
    /\ entry_i' = entry_i + 1
    /\ UNCHANGED <<pages, retry, output, prev, disk, pc, res, entries_to_download,
                   total_size,
                   total_num, plan, exc, requests>>
    /\ UNCHANGED downloadVars
    /\ UNCHANGED hvars

\* lines 148-150: a folder
EntryFolder ==
    /\ AtEntry
    /\ res.entries[entry_i].kind = "folder"
    /\ Abort("NotImplementedError")
    /\ UNCHANGED <<pages, retry, output, prev, disk, plan>>
    /\ UNCHANGED listingVars
    /\ UNCHANGED downloadVars
    /\ UNCHANGED hvars

\* a variant of lines 151-152 that passes over an entry of unknown type
EntryUnknownSkipped ==
    /\ AtEntry
    /\ res.entries[entry_i].kind \notin {"file", "folder"}
    /\ entry_i' = entry_i + 1
    /\ UNCHANGED <<pages, retry, output, prev, disk, pc, res, entries_to_download,
                   total_size,
                   total_num, plan, exc, requests>>
    /\ UNCHANGED downloadVars
    /\ UNCHANGED hvars

\* lines 151-152: any other entry
EntryUnknown ==
    /\ AtEntry
    /\ res.entries[entry_i].kind \notin {"file", "folder"}
    /\ Abort("ValueError")
    /\ UNCHANGED <<pages, retry, output, prev, disk, plan>>
    /\ UNCHANGED listingVars
    /\ UNCHANGED downloadVars
    /\ UNCHANGED hvars

AtPageEnd == pc = "entries" /\ entry_i > Len(res.entries)

\* a variant of line 158 that stops after any page
LastPageAlways == TRUE

\* line 158: not res.has_more
LastPage == ~ res.has_more

\* the page the service returns for a cursor
PageAfter(cursor) == pages[cursor + 1]

\* lines 158-160: dbx.files_list_folder_continue(res.cursor)
ListFolderContinue ==
    /\ AtPageEnd
    /\ ~ LastPage
    /\ requests' = Append(requests, [call |-> "list_folder_continue", cursor |-> res.cursor])
    /\ \/ TakePage(PageAfter(res.cursor))
       \/ Abort("TransportError") /\ UNCHANGED <<res, total_num, entry_i>>
    /\ UNCHANGED <<pages, retry, output, prev, disk, entries_to_download, total_size,
                   plan>>
    /\ UNCHANGED downloadVars
    /\ UNCHANGED hvars

\* lines 162-164: "Found {len(entries_to_download)}/{total_num} files
\* ({total_size} bytes) to download", as the counts it states
FoundLine ==
    [text   |-> "Found",
     counts |-> [to_download |-> Len(entries_to_download),
                 total_num   |-> total_num,
                 total_size  |-> total_size]]

\* line 199: "Download completed"; the line states no count
CompletedLine == [text |-> "Download completed", counts |-> <<>>]

\* lines 158-165 and 209-210: the listing ends, fetch_entries returns the list
\* and main passes it to download_entries, whose outer loop starts
ReturnEntries ==
    /\ AtPageEnd
    /\ LastPage
    /\ output' = Append(output, FoundLine)
    /\ plan' = [returned |-> TRUE, entries |-> entries_to_download]
    /\ idx' = 1
    /\ retry_i' = 0
    /\ pc' = "fetch"
    /\ UNCHANGED <<pages, retry, prev, disk, exc, error, fetches, passedAt, fetchedBad,
                   nrefresh, reported>>
    /\ UNCHANGED listingVars
    /\ UNCHANGED hvars

Entry == plan.entries[idx]

\* what the service may deliver for a name: the file, or a damaged body
Deliverable(name) ==
    {RemoteContent(name), Corrupted(RemoteContent(name)), Truncated(RemoteContent(name))}

\* what a fetch that raises may leave at the destination: what was there, or
\* the part of the body written before the error
LeftBehind(d, name) ==
    {d, [d EXCEPT ![name] = File(Truncated(RemoteContent(name)))]}

\* lines 178-183: the next attempt; dbx.sharing_get_shared_link_file_to_file
\* writes the file, or raises
Fetch ==
    /\ pc = "fetch"
    /\ idx <= Len(plan.entries)
    /\ retry_i < retry
    /\ fetches' = [fetches EXCEPT ![Entry.name] = @ + 1]
    /\ \/ \E body \in Deliverable(Entry.name) :
            /\ disk' = [disk EXCEPT ![Entry.name] = File(body)]
            /\ fetchedBad' = [fetchedBad EXCEPT ![Entry.name] =
                                 ServiceContentHash(body) # Entry.content_hash]
            /\ pc' = "verify"
            /\ UNCHANGED error
       \/ \E e \in {"TransportError", "AuthError"} :
            /\ disk' \in LeftBehind(disk, Entry.name)
            /\ fetchedBad' = [fetchedBad EXCEPT ![Entry.name] = FALSE]
            /\ error' = e
            /\ pc' = "handler"
    /\ UNCHANGED <<pages, retry, output, prev, plan, idx, retry_i, exc, passedAt,
                   nrefresh, reported>>
    /\ UNCHANGED listingVars
    /\ UNCHANGED hvars

\* a variant in which the outer loop stays at the entry it has just left
NextEntryStay ==
    /\ idx' = idx
    /\ retry_i' = 0
    /\ pc' = "fetch"

\* the inner loop is left and the outer loop goes to the next entry
NextEntry ==
    /\ idx' = idx + 1
    /\ retry_i' = 0
    /\ pc' = "fetch"

\* line 187 left out: the inner loop goes on after a verified download
BreakMissing ==
    IF retry_i + 1 < retry
    THEN /\ retry_i' = retry_i + 1
         /\ pc' = "fetch"
         /\ UNCHANGED idx
    ELSE NextEntry

\* line 187: break
Break == NextEntry

\* line 185 left out
UnlinkForgotten(d, name) == d

\* line 185: save_path.unlink()
Unlink(d, name) == [d EXCEPT ![name] = NoFile]

\* a variant of lines 184-187 that deletes the file it has verified
VerifyPassRemoving ==
    /\ pc = "verify"
    /\ check_file_hash(disk[Entry.name].content, Entry.content_hash)
    /\ disk' = [disk EXCEPT ![Entry.name] = NoFile]
    /\ passedAt' = IF passedAt[Entry.name] = 0
                   THEN [passedAt EXCEPT ![Entry.name] = fetches[Entry.name]]
                   ELSE passedAt
    /\ Break
    /\ UNCHANGED <<pages, retry, output, prev, plan, error, exc, fetches, fetchedBad,
                   nrefresh, reported>>
    /\ UNCHANGED listingVars
    /\ UNCHANGED hvars

\* lines 184, 187: the downloaded file has the entry's hash
VerifyPass ==
    /\ pc = "verify"
    /\ check_file_hash(disk[Entry.name].content, Entry.content_hash)
    /\ passedAt' = IF passedAt[Entry.name] = 0
                   THEN [passedAt EXCEPT ![Entry.name] = fetches[Entry.name]]
                   ELSE passedAt
    /\ Break
    /\ UNCHANGED <<pages, retry, output, prev, disk, plan, error, exc, fetches,
                   fetchedBad,
                   nrefresh, reported>>
    /\ UNCHANGED listingVars
    /\ UNCHANGED hvars

\* lines 184-186: it has not; the file is deleted and ValueError raised
VerifyMismatch ==
    /\ pc = "verify"
    /\ ~ check_file_hash(disk[Entry.name].content, Entry.content_hash)
    /\ disk' = Unlink(disk, Entry.name)
    /\ error' = "ValueError"
    /\ pc' = "handler"
    /\ UNCHANGED <<pages, retry, output, prev, plan, idx, retry_i, exc, fetches, passedAt,
                   fetchedBad, nrefresh, reported>>
    /\ UNCHANGED listingVars
    /\ UNCHANGED hvars

\* lines 188-196: attempts remain; dbx.check_and_refresh_access_token() is
\* called, and returns (whatever it returns, a line is printed and the loop
\* goes on) or raises, which nothing catches
HandlerRetry ==
    /\ pc = "handler"
    /\ retry_i < retry - 1
    /\ nrefresh' = nrefresh + 1
    /\ \/ /\ \E refreshed \in BOOLEAN : TRUE
          /\ retry_i' = retry_i + 1
          /\ error' = NoExc
          /\ pc' = "fetch"
          /\ UNCHANGED exc
       \/ /\ Abort("RefreshError")
          /\ UNCHANGED <<retry_i, error>>
    /\ UNCHANGED <<pages, retry, output, prev, disk, plan, idx, fetches, passedAt,
                   fetchedBad, reported>>
    /\ UNCHANGED listingVars
    /\ UNCHANGED hvars

\* a variant of lines 197-198 that refreshes the token after the last attempt too
HandlerSkipRefreshing ==
    /\ pc = "handler"
    /\ ~ (retry_i < retry - 1)
    /\ nrefresh' = nrefresh + 1
    /\ reported' = reported \cup {Entry.name}
    /\ error' = NoExc
    /\ idx' = idx + 1
    /\ retry_i' = 0
    /\ pc' = "fetch"
    /\ UNCHANGED <<pages, retry, output, prev, disk, plan, exc, fetches, passedAt,
                   fetchedBad>>
    /\ UNCHANGED listingVars
    /\ UNCHANGED hvars

\* lines 197-198: the last attempt failed; the failure is reported and the
\* inner loop ends
HandlerSkip ==
    /\ pc = "handler"
    /\ ~ (retry_i < retry - 1)
    /\ reported' = reported \cup {Entry.name}
    /\ error' = NoExc
    /\ NextEntry
    /\ UNCHANGED <<pages, retry, output, prev, disk, plan, exc, fetches, passedAt,
                   fetchedBad, nrefresh>>
    /\ UNCHANGED listingVars
    /\ UNCHANGED hvars

\* line 178 with range(retry) empty: no attempt is made for the entry
NoAttempt ==
    /\ pc = "fetch"
    /\ idx <= Len(plan.entries)
    /\ ~ (retry_i < retry)
    /\ NextEntry
    /\ UNCHANGED <<pages, retry, output, prev, disk, plan, error, exc, fetches,
                   passedAt, fetchedBad,
                   nrefresh, reported>>
    /\ UNCHANGED listingVars
    /\ UNCHANGED hvars

\* lines 199, 212: the outer loop is over; "Download completed", dbx.close()
DownloadCompleted ==
    /\ pc = "fetch"
    /\ idx > Len(plan.entries)
    /\ pc' = "done"
    /\ output' = Append(output, CompletedLine)
    /\ UNCHANGED <<pages, retry, prev, disk, plan, exc>>
    /\ UNCHANGED listingVars
    /\ UNCHANGED downloadVars
    /\ UNCHANGED hvars

\* the entry is satisfied by the file: it exists with the entry's size and the
\* content hash the service computes for its content
Satisfied(file, entry) ==
    /\ file.exists
    /\ Len(file.content) = entry.size
    /\ ServiceContentHash(file.content) = entry.content_hash

\* the names of the listed files whose local file is missing or has not the
\* size and the content hash of the entry
StaleNames ==
    {AllEntries(pages)[k].name :
        k \in {j \in DOMAIN AllEntries(pages) :
                  /\ AllEntries(pages)[j].kind = "file"
                  /\ ~ Satisfied(disk[AllEntries(pages)[j].name], AllEntries(pages)[j])}}

\* lines 215-239, 202-209: the program is run once more after a run has ended,
\* with the same link, save directory and retry count; the files on disk are
\* what the ended run left
RunAgain ==
    /\ pc \in {"done", "aborted"}
    /\ ~ prev.ran
    /\ prev' = [ran        |-> TRUE,
                verified   |-> /\ plan.entries # <<>>
                               /\ \A k \in DOMAIN plan.entries :
                                      passedAt[plan.entries[k].name] > 0,
                stale      |-> StaleNames]
    /\ pc' = "list_folder"
    /\ res' = NoPage
    /\ entry_i' = 0
    /\ entries_to_download' = <<>>
    /\ total_size' = 0
    /\ total_num' = 0
    /\ plan' = NoPlan
    /\ idx' = 0
    /\ retry_i' = 0
    /\ error' = NoExc
    /\ exc' = NoExc
    /\ requests' = <<>>
    /\ fetches' = [n \in Names |-> 0]
    /\ passedAt' = [n \in Names |-> 0]
    /\ fetchedBad' = [n \in Names |-> FALSE]
    /\ nrefresh' = 0
    /\ reported' = {}
    /\ output' = <<>>
    /\ UNCHANGED <<pages, retry, disk>>
    /\ UNCHANGED hvars

Next ==
    \/ ListFolder
    \/ EntrySkip
    \/ EntryInclude
    \/ EntryFolder
    \/ EntryUnknown
    \/ ListFolderContinue
    \/ ReturnEntries
    \/ Fetch
    \/ VerifyPass
    \/ VerifyMismatch
    \/ HandlerRetry
    \/ HandlerSkip
    \/ NoAttempt
    \/ DownloadCompleted
    \/ RunAgain

Spec == Init /\ [][Next]_vars

HasherInitial == HasherStart /\ EngineIdle

HasherSpec == HasherInitial /\ [][HasherNext]_vars

(***************************************************************************)
(* Properties of the Content Hasher (HasherSpec).                          *)
(***************************************************************************)
digest_size == Len(Sha256Digest(<<>>))

Finalized(op) == op \in {"digest", "hexdigest"}

\* the last call finalized its instance and returned a digest
DigestReturned == Finalized(last.op) /\ last.exc = NoExc

\* the value a fresh hasher returns when all of D is fed in one update call
OneShot(op, D) ==
    LET w == update(HasherInit(EmptyWorld, 1), 1, Binary(D)).w
    IN  IF op = "digest" THEN digest(w, 1).ret ELSE hexdigest(w, 1).ret

\* the digests of the consecutive BLOCK_SIZE-sized blocks of D, concatenated
RECURSIVE BlockDigests(_)
BlockDigests(D) ==
    IF D = <<>> THEN <<>>
    ELSE LET n == Min(BLOCK_SIZE, Len(D))
         IN  Sha256Digest(SubSeq(D, 1, n)) \o BlockDigests(SubSeq(D, n + 1, Len(D)))

CeilDiv(a, b) == (a + b - 1) \div b

\* C1: whatever update calls (empty chunks included) brought the data D to a
\* fresh hasher, the digest it returns is the one a fresh hasher returns when D
\* is fed in a single update call.
C1_ChunkingInvariance ==
    (DigestReturned /\ last.inst = 1) => last.ret = OneShot(last.op, fed[1])

\* a digest of data of more than one block that arrived in several update calls
C1_Witness ==
    /\ DigestReturned /\ last.inst = 1
    /\ nupdates[1] >= 2
    /\ Len(fed[1]) > BLOCK_SIZE

\* C2: at finalize the input of the overall accumulator is the concatenation of
\* the digests of the consecutive BLOCK_SIZE-sized blocks of the data fed, the
\* last one shorter when the length is no multiple of BLOCK_SIZE: ceil(L /
\* BLOCK_SIZE) digests, none of an empty block, and none at all for L = 0.
C2_BlockDigestsFolded ==
    DigestReturned =>
        /\ last.input = BlockDigests(fed[last.inst])
        /\ Len(last.input) = digest_size * CeilDiv(Len(fed[last.inst]), BLOCK_SIZE)

\* a digest of data whose length is a positive multiple of BLOCK_SIZE
C2_Witness ==
    /\ DigestReturned
    /\ Len(fed[last.inst]) = 2 * BLOCK_SIZE
    /\ Len(last.input) = 2 * digest_size

\* C9: once digest or hexdigest has been called on an instance, every later
\* update, digest or hexdigest on it raises the invalid-state error and returns
\* nothing.
C9_FinalizeOnce ==
    (last.prior >= 1 /\ last.op \in {"update", "digest", "hexdigest"}) =>
        (last.exc = InvalidState /\ last.ret = NoValue)

\* a third finalize of an instance, refused
C9_Witness ==
    /\ last.prior >= 2
    /\ Finalized(last.op)
    /\ last.exc = InvalidState

\* what instance i holds: whether it is finalized, the states of its two
\* accumulators and its block position
View(i) ==
    [finalized |-> hashers[i].overall = None,
     overall   |-> IF hashers[i].overall = None THEN <<>>
                   ELSE heap[hashers[i].overall].input,
     block     |-> IF hashers[i].block = None THEN <<>>
                   ELSE heap[hashers[i].block].input,
     pos       |-> hashers[i].pos]

C10_Digest ==
    (DigestReturned /\ last.inst = 2) => last.ret = OneShot(last.op, fed[2])

C10_Step ==
    \A i \in Insts :
        (ncalls' = ncalls + 1 /\ last'.inst = i) =>
            /\ \A j \in Insts \ {i} : hashers[j].made => View(j)' = View(j)
            /\ (last'.op = "copy" /\ last'.exc = NoExc) =>
                  /\ View(i)' = View(i)
                  /\ ~ View(i).finalized
                  /\ \E c \in Insts \ {i} :
                        /\ ~ hashers[c].made /\ hashers'[c].made
                        /\ View(c)' = View(i)

\* C10: copy returns an instance with the same overall accumulator, block
\* accumulator and block position and finalizes neither; the copy's digest is
\* the digest of a never-forked hasher fed the whole input; a call on one of the
\* two instances leaves the other's state unchanged.
C10_CopyIndependent == [](C10_Digest) /\ [][C10_Step]_vars

\* the copy was fed further data and returned its digest; the original is active
C10_Witness ==
    /\ DigestReturned /\ last.inst = 2
    /\ fed[1] # <<>>
    /\ fed[2] # fed[1]
    /\ ~ View(1).finalized

(***************************************************************************)
(* Properties of the Sync Engine (Spec).                                   *)
(***************************************************************************)
Listed == AllEntries(pages)
InPlan(entry) == \E k \in DOMAIN plan.entries : plan.entries[k] = entry
Needed(entry) == ~ Satisfied(disk[entry.name], entry)

\* the step in which fetch_entries returns
Returning == ~ plan.returned /\ plan'.returned

\* fetch_entries has just returned: nothing of the download phase has happened
JustReturned ==
    /\ plan.returned
    /\ pc = "fetch" /\ idx = 1 /\ retry_i = 0
    /\ \A n \in Names : fetches[n] = 0

C3_Step ==
    Returning =>
        \A k \in DOMAIN Listed :
            Listed[k].kind = "file" =>
                (~ InPlan(Listed[k])' <=> Satisfied(disk[Listed[k].name], Listed[k]))

\* C3: when fetch_entries returns, a file entry is left out of the plan
\* exactly when a local file exists at its name with the entry's size and the
\* entry's content hash.
C3_ExcludedIffSatisfied == [][C3_Step]_vars

\* a plan that leaves out a verified file and holds a file of the right size
\* and the wrong content
C3_Witness ==
    /\ JustReturned
    /\ \E k \in DOMAIN Listed :
          /\ ~ InPlan(Listed[k])
          /\ disk[Listed[k].name] = File(RemoteContent(Listed[k].name))
    /\ \E k \in DOMAIN Listed :
          /\ InPlan(Listed[k])
          /\ disk[Listed[k].name] = File(Corrupted(RemoteContent(Listed[k].name)))

OnlyFiles == \A k \in DOMAIN Listed : Listed[k].kind = "file"

\* the listing calls of a complete enumeration: list_folder, then one
\* list_folder_continue per further page, with the cursor of the page before
ExpectedRequests ==
    [k \in 1 .. Len(pages) |->
        IF k = 1 THEN [call |-> "list_folder", cursor |-> 0]
        ELSE [call |-> "list_folder_continue", cursor |-> pages[k - 1].cursor]]

IsPrefix(s, t) == Len(s) <= Len(t) /\ s = SubSeq(t, 1, Len(s))

C4_Requests ==
    OnlyFiles =>
        /\ IsPrefix(requests, ExpectedRequests)
        /\ plan.returned => requests = ExpectedRequests

C4_Step ==
    (OnlyFiles /\ Returning) =>
        /\ plan'.entries = SelectSeq(Listed, Needed)
        /\ Len(plan'.entries) =
              Len(Listed) - Cardinality({k \in DOMAIN Listed : ~ Needed(Listed[k])})

\* the step belongs to the run in progress: it does not start a new one
SameRun == prev' = prev

C4_Kept == (plan.returned /\ SameRun) => plan' = plan

\* C4: for a listing of files only, every page is requested once, in order,
\* each continuation with the cursor of the page before, none after the page
\* without has_more; the plan fetch_entries returns is the listed entries not
\* satisfied on disk, in listing order, so its length is the number listed
\* minus the number satisfied; the plan does not change in the rest of the run.
C4_PagesAndPlan == [](C4_Requests) /\ [][C4_Step /\ C4_Kept]_vars

\* three pages, entries on more than one of them, one of them satisfied
C4_Witness ==
    /\ OnlyFiles
    /\ JustReturned
    /\ Len(pages) = 3
    /\ Len(requests) = 3
    /\ pages[1].entries # <<>> /\ pages[3].entries # <<>>
    /\ Len(plan.entries) = 1
    /\ Len(Listed) = 2

HasFolder == \E k \in DOMAIN Listed : Listed[k].kind = "folder"

\* the page and the place in it of the first folder of the listing
FolderPage ==
    CHOOSE p \in DOMAIN pages :
        /\ \E j \in DOMAIN pages[p].entries : pages[p].entries[j].kind = "folder"
        /\ \A q \in 1 .. (p - 1) :
              \A j \in DOMAIN pages[q].entries : pages[q].entries[j].kind # "folder"
FolderPlace ==
    CHOOSE j \in DOMAIN pages[FolderPage].entries :
        /\ pages[FolderPage].entries[j].kind = "folder"
        /\ \A i \in 1 .. (j - 1) : pages[FolderPage].entries[i].kind # "folder"

AtFolder == Len(requests) = FolderPage /\ res = pages[FolderPage] /\ entry_i = FolderPlace

\* C5: with a folder in the listing, fetch_entries never returns a plan and
\* never gets past the folder: no page after the folder's is requested, the
\* run raises NotImplementedError at the folder and nowhere else, and ends
\* there.
C5_FolderAborts ==
    HasFolder =>
        /\ ~ plan.returned
        /\ pc \in {"list_folder", "entries", "aborted"}
        /\ Len(requests) <= FolderPage
        /\ (pc = "entries" /\ Len(requests) = FolderPage) => entry_i <= FolderPlace
        /\ exc = "NotImplementedError" => AtFolder
        /\ (pc = "aborted" /\ AtFolder) => exc = "NotImplementedError"

\* a folder on the second page after a file that was put on the list
C5_Witness ==
    /\ HasFolder
    /\ FolderPage = 2
    /\ pc = "aborted"
    /\ exc = "NotImplementedError"
    /\ entries_to_download # <<>>
    /\ ~ plan.returned

\* C6: at most retry fetch requests are issued for an entry, and none after
\* the attempt whose file passed verification.
C6_BoundedRetries ==
    \A n \in Names :
        /\ fetches[n] <= retry
        /\ passedAt[n] > 0 => fetches[n] = passedAt[n]

\* the run is over; one entry used up all its attempts, another passed on its
\* first
C6_Witness ==
    /\ pc = "done"
    /\ retry = MaxRetry
    /\ \E n \in Names : fetches[n] = retry /\ passedAt[n] = 0
    /\ \E n \in Names : fetches[n] = 1 /\ passedAt[n] = 1

\* C7: when a fetch completed and left a file whose hash is not the entry's,
\* the file is gone by the time the handler, the next attempt or the next
\* entry is reached, and stays gone until it is fetched again.
C7_MismatchDeleted ==
    \A n \in Names :
        (fetchedBad[n] /\ ~ (pc = "verify" /\ Entry.name = n)) => ~ disk[n].exists

\* the run is over; an entry whose last attempt of retry failed verification
\* was reported and left no file
C7_Witness ==
    /\ pc = "done"
    /\ retry = MaxRetry
    /\ \E n \in Names :
          /\ fetchedBad[n]
          /\ fetches[n] = retry
          /\ n \in reported
          /\ ~ disk[n].exists

\* C8: with retry >= 1 the download phase is never ended by an exception, and
\* when it is over every entry of the plan has been fetched at least once.
C8_RunCompletes ==
    (plan.returned /\ retry >= 1) =>
        /\ pc # "aborted"
        /\ pc = "done" => \A k \in DOMAIN plan.entries : fetches[plan.entries[k].name] >= 1


\* the step calls dbx.check_and_refresh_access_token()
RefreshCalled == nrefresh' > nrefresh

\* C11 as stated: the token refresh is called only after a failed attempt with
\* attempts remaining whose error is the expired-credential one; after a
\* transport error or a hash mismatch the entry is retried with no refresh
\* call, and after the last attempt no refresh is called.
C11_RefreshOnlyWhenExpired ==
    [][/\ RefreshCalled =>
              pc = "handler" /\ retry_i < retry - 1 /\ error = "AuthError"
       /\ (pc = "handler" /\ error \in {"TransportError", "ValueError"}) =>
              ~ RefreshCalled]_vars

\* C11: the token refresh is called once after every failed attempt that has
\* attempts remaining, whatever the error was (transport error, expired
\* credential, hash mismatch), and nowhere else: not after the last attempt
\* of an entry, not after a verified attempt, not in the listing.
C11_RefreshAfterEveryFailure ==
    [][/\ RefreshCalled =>
              /\ pc = "handler" /\ retry_i < retry - 1
              /\ error \in {"TransportError", "AuthError", "ValueError"}
              /\ nrefresh' = nrefresh + 1
       /\ (pc = "handler" /\ retry_i < retry - 1) => RefreshCalled
       /\ (pc = "handler" /\ ~ (retry_i < retry - 1)) => ~ RefreshCalled]_vars

\* the second attempt at an entry begins after a hash mismatch and one refresh call
C11_Witness ==
    /\ pc = "fetch" /\ retry_i = 1
    /\ fetchedBad[Entry.name]
    /\ nrefresh = 1

\* C12: whatever comes of the refresh call made after a failed attempt (a
\* refresh, no refresh, an error), the run goes on: the same entry gets its next
\* attempt.
C12_RefreshFailureNotFatal ==
    [][RefreshCalled =>
          /\ pc' = "fetch"
          /\ idx' = idx
          /\ retry_i' = retry_i + 1
          /\ exc' = NoExc]_vars

HasUnknown == \E k \in DOMAIN Listed : Listed[k].kind \notin {"file", "folder"}

ListingErrors == {"TransportError", "NotImplementedError", "ValueError"}

\* C13: a run whose listing holds a folder or an entry of unknown type never
\* has a plan, and a run that raised a listing error (transport error of a
\* listing call, folder, unknown type) has ended with no plan, with listing
\* calls that are the calls of the enumeration up to the failure, each made
\* once, and in both cases no attempt at any entry has been made: no fetch
\* request, no refresh call, the disk as the listing read it.
C13_ListingErrorAborts ==
    /\ (HasFolder \/ HasUnknown) =>
          /\ ~ plan.returned
          /\ pc \in {"list_folder", "entries", "aborted"}
          /\ \A n \in Names : fetches[n] = 0
    /\ exc \in ListingErrors =>
          /\ pc = "aborted"
          /\ ~ plan.returned
          /\ IsPrefix(requests, ExpectedRequests)
          /\ idx = 0 /\ nrefresh = 0 /\ reported = {}
          /\ \A n \in Names : fetches[n] = 0

\* a transport error of list_folder_continue, with entries of the pages before
\* already on the list of downloads
C13_Witness ==
    /\ pc = "aborted" /\ exc = "TransportError"
    /\ Len(requests) >= 2
    /\ entries_to_download # <<>>
    /\ \A n \in Names : fetches[n] = 0

Resolved(n) == passedAt[n] > 0 \/ n \in reported

\* a step of the download phase that touches the entry named n: a fetch
\* request, or a change of its file (written, verified and kept, deleted)
Touches(n) == fetches'[n] > fetches[n] \/ disk'[n] # disk[n]

C14_Order ==
    plan.returned =>
        \A k \in DOMAIN plan.entries :
            k > idx => /\ fetches[plan.entries[k].name] = 0
                       /\ ~ Resolved(plan.entries[k].name)

C14_Step ==
    /\ \A n \in Names :
          Touches(n) =>
              /\ plan.returned
              /\ idx \in DOMAIN plan.entries
              /\ n = plan.entries[idx].name
              /\ ~ Resolved(n)
    /\ (plan.returned /\ plan'.returned) => idx' \in {idx, idx + 1}

\* C14: the download phase works on one plan entry at a time, in plan order:
\* every fetch request and every change of a file belongs to the entry at
\* idx, idx only moves to the next entry, the entries after idx have had no
\* fetch request and no outcome yet, and a resolved entry gets no further
\* fetch request.
C14_Sequential == [](C14_Order) /\ [][C14_Step]_vars

\* the second entry of the plan has been fetched after the first was given up
C14_Witness ==
    /\ plan.returned /\ Len(plan.entries) = 2 /\ idx = 2
    /\ plan.entries[1].name \in reported
    /\ fetches[plan.entries[1].name] = 2
    /\ fetches[plan.entries[2].name] >= 1

\* C16: every plan entry the download phase has moved on from has its file on
\* disk with the size and the content hash of the entry, or has had its
\* failure reported, whatever the retry count.
C16_ResolvedOrReported ==
    plan.returned =>
        \A k \in DOMAIN plan.entries :
            k < idx =>
                \/ Satisfied(disk[plan.entries[k].name], plan.entries[k])
                \/ plan.entries[k].name \in reported

\* the bytes an instance has been fed since its current block began
CurrentBlock(i) == SubSeq(fed[i], Len(fed[i]) - hashers[i].pos + 1, Len(fed[i]))

\* the bytes of the complete blocks before the current one
Folded(i) == SubSeq(fed[i], 1, Len(fed[i]) - hashers[i].pos)

Active(i) == hashers[i].made /\ hashers[i].overall # None

\* C18: for every hasher that is not finalized, after any update calls: the
\* block position is within 0 .. BLOCK_SIZE, the block hasher holds exactly
\* the last block-position bytes fed, the overall hasher holds the digests of
\* the complete blocks before them, one digest for each, and the block
\* position is 0 only when no byte has been fed.
C18_HasherInvariant ==
    \A i \in Insts :
        Active(i) =>
            /\ hashers[i].pos \in 0 .. BLOCK_SIZE
            /\ hashers[i].pos <= Len(fed[i])
            /\ View(i).block = CurrentBlock(i)
            /\ Len(Folded(i)) % BLOCK_SIZE = 0
            /\ View(i).overall = BlockDigests(Folded(i))
            /\ Len(View(i).overall) = digest_size * (Len(Folded(i)) \div BLOCK_SIZE)
            /\ (hashers[i].pos = 0 => fed[i] = <<>>)

\* two full blocks fed in several calls: the first is folded, the second is
\* still in the block hasher
C18_Witness ==
    /\ Active(1)
    /\ nupdates[1] >= 2
    /\ Len(fed[1]) = 2 * BLOCK_SIZE
    /\ hashers[1].pos = BLOCK_SIZE
    /\ Len(View(1).overall) = digest_size

\* C19: no step of fetch_entries changes a local file, whether it ends in a
\* plan or in an error, so every file that put its entry on the plan is on
\* disk as it was found when the download phase starts.
C19_ListingKeepsDisk ==
    [][(pc \in {"list_folder", "entries"}) => disk' = disk]_vars

\* the download phase starts with a stale file of a plan entry still on disk
C19_Witness ==
    /\ JustReturned
    /\ \E k \in DOMAIN plan.entries :
          /\ disk[plan.entries[k].name].exists
          /\ ~ Satisfied(disk[plan.entries[k].name], plan.entries[k])


\* the step starts a new run after one that ended with every plan entry verified
RestartVerified ==
    /\ ~ prev.ran /\ prev'.ran
    /\ pc = "done"
    /\ \A k \in DOMAIN plan.entries : passedAt[plan.entries[k].name] > 0

C15_Restart == RestartVerified => prev'.stale = {}

PlanNames == {plan.entries[k].name : k \in DOMAIN plan.entries}

C15_Later ==
    prev.ran =>
        /\ \A n \in Names : fetches[n] > 0 => n \in prev.stale
        /\ (plan.returned /\ \A n \in Names : fetches[n] = 0) => PlanNames = prev.stale
        /\ plan.returned => PlanNames \subseteq prev.stale
        /\ prev.stale = {} =>
              /\ plan.returned => plan.entries = <<>>
              /\ \A n \in Names : fetches[n] = 0

\* C15: a run that ended with every plan entry verified leaves no listed file
\* missing or not matching, and a run that follows a run (same listing, the
\* disk the first run left) has in its plan exactly the entries whose file
\* was left missing or not matching and fetches no other: after a fully
\* verified run the plan is empty and there is no fetch request.
C15_Resumable == [](C15_Later) /\ [][C15_Restart]_vars

\* a second run has ended, with an empty plan and no fetch request, after a
\* first run that had a plan and verified every entry of it
C15_Witness ==
    /\ prev.ran /\ prev.verified
    /\ pc = "done"
    /\ Listed # <<>>
    /\ plan.returned /\ plan.entries = <<>>
    /\ \A n \in Names : fetches[n] = 0

\* the listing of the scenario: a.txt, then b.txt
ScenarioListed == Listed = <<FileMetadata("a"), FileMetadata("b")>>

\* the disk of the scenario: a.txt as listed, b.txt missing or not as listed
ScenarioDisk ==
    /\ Satisfied(disk["a"], FileMetadata("a"))
    /\ ~ Satisfied(disk["b"], FileMetadata("b"))

\* the lines of the scenario's run
ScenarioFound ==
    [text   |-> "Found",
     counts |-> [to_download |-> 1, total_num |-> 2,
                 total_size  |-> FileMetadata("b").size]]

\* some line of the output states the count c under the label given
Reports(label, c) ==
    \E k \in DOMAIN output :
        /\ label \in DOMAIN output[k].counts
        /\ output[k].counts[label] = c

\* fetch_entries returns in the scenario: the plan is [b.txt]
C17_Plan ==
    (ScenarioListed /\ ScenarioDisk /\ Returning) =>
        /\ plan'.entries = <<FileMetadata("b")>>
        /\ output' = <<ScenarioFound>>
        /\ \A n \in Names : fetches[n] = 0

\* the download phase of the scenario, b.txt verified at its first attempt
ScenarioDownload ==
    /\ ScenarioListed
    /\ plan.returned /\ plan.entries = <<FileMetadata("b")>>
    /\ passedAt["b"] = 1

C17_Fetches ==
    ScenarioDownload =>
        /\ fetches["a"] = 0
        /\ fetches["b"] = 1
        /\ Satisfied(disk["b"], FileMetadata("b"))

====
